---- MODULE Spec2Model ----
(***************************************************************************)
(* Split-statistics accumulators of tensor_forest (kernels/v4/grow_stats): *)
(* GrowStats, ClassificationStats, DenseClassificationGrowStats,           *)
(* SparseClassificationGrowStats and LeastSquaresRegressionGrowStats.      *)
(*                                                                         *)
(* Floats are modelled by exact rationals <<numerator, denominator>> with  *)
(* a positive denominator; example weights and regression targets are      *)
(* small naturals, so every count, sum and square is a natural number.     *)
(***************************************************************************)
EXTENDS Integers, Sequences, FiniteSets, TLC

(***************************************************************************)
(* Bounds of the model.                                                    *)
(***************************************************************************)
\* params.num_outputs(): number of classes / regression output dimensions.
NumOutputs == 2
\* num_splits_to_consider of the leaves grown under Spec.
MaxSplits == 3
\* AddExample is not called once weight_sum_ would pass this value.
MaxWeightSum == 2
\* Example weights are drawn from 0..MaxWeight.
MaxWeight == 1
\* Largest weight_sum of a FertileSlot record handed to ExtractFromProto.
MaxSlotWeight == 1
\* Largest number of candidates of such a record.
MaxSlotCands == 1
\* Number of weight-1 examples fed to a leaf under SpecSchedule.
MaxExamples == 4
\* Largest check_every_steps and prune_every_samples under SpecSchedule.
MaxEvery == 2
\* NumBootstrapSamples is run for the dominate fractions k / FractionDen.
FractionDen == 64
\* The loop of NumBootstrapSamples is followed up to this sample count.
MaxSamples == 8

(***************************************************************************)
(* Program constants.                                                      *)
(***************************************************************************)
LEFT_INDEX == 0
RIGHT_INDEX == 1

Classes == 0 .. (NumOutputs - 1)
Weights == 0 .. MaxWeight
\* Regression targets (one value per output dimension).
TargetValues == {1, 2}

(***************************************************************************)
(* Exact arithmetic standing for float.                                    *)
(***************************************************************************)
Rat(n, d) == <<n, d>>
RZero == <<0, 1>>
\* FLT_MAX: larger than every score (0 < d for every proper rational).
FLT_MAX == <<1, 0>>
RLt(a, b) == a[1] * b[2] < b[1] * a[2]
REq(a, b) == a[1] * b[2] = b[1] * a[2]
RAdd(a, b) == <<a[1] * b[2] + b[1] * a[2], a[2] * b[2]>>
RSub(a, b) == <<a[1] * b[2] - b[1] * a[2], a[2] * b[2]>>
RMul(a, b) == <<a[1] * b[1], a[2] * b[2]>>

RECURSIVE SumSeq(_)
SumSeq(s) == IF s = <<>> THEN 0 ELSE Head(s) + SumSeq(Tail(s))

RECURSIVE SumOver(_, _)
SumOver(f, dom) ==
  IF dom = {} THEN 0
  ELSE LET x == CHOOSE y \in dom : TRUE IN f[x] + SumOver(f, dom \ {x})

\* s with the element at position k (1-based) erased: vector::erase(begin()+k-1).
Erase(s, k) == [i \in 1 .. (Len(s) - 1) |-> IF i < k THEN s[i] ELSE s[i + 1]]

(***************************************************************************)
(* TensorForestParams.  dominate_fraction is one of six representative     *)
(* values, named by where it lies and by ln(1/(1-d)), the only way the     *)
(* code uses it:                                                           *)
(*   "neg"   d < 0              "zero"  d = 0                              *)
(*   "low"   d = 1 - e^(-1/2)   "high"  d = 1 - e^(-2)                     *)
(*   "one"   d = 1              "above" d > 1                              *)
(***************************************************************************)
DominateFractions == {"neg", "zero", "low", "high", "one", "above"}
FinishTypes == {"SPLIT_FINISH_BASIC", "SPLIT_FINISH_DOMINATE_HOEFFDING",
                "SPLIT_FINISH_DOMINATE_BOOTSTRAP"}
PruneTypes == {"SPLIT_PRUNE_NONE", "SPLIT_PRUNE_HALF", "SPLIT_PRUNE_QUARTER",
               "SPLIT_PRUNE_10_PERCENT", "SPLIT_PRUNE_HOEFFDING"}
Variants == {"dense", "sparse", "regression"}

\* A float that is +infinity, and one that is NaN (every comparison false).
RInf == <<1, 0>>
RNaN == <<0, 0>>
IsNaN(r) == r[1] = 0 /\ r[2] = 0
IsInf(r) == r[1] > 0 /\ r[2] = 0

\* log(1.0 / (1.0 - d)): +infinity for d = 1 (log of 1/0), NaN for d > 1.
LnInvOneMinus(d) ==
  CASE d = "neg" -> <<-1, 2>>
    [] d = "zero" -> <<0, 1>>
    [] d = "low" -> <<1, 2>>
    [] d = "high" -> <<8, 1>>
    [] d = "one" -> RInf
    [] OTHER -> RNaN

\* dominate_fraction_ <= 0 || dominate_fraction_ > 1.0
InvalidDominateFraction(d) == d \in {"neg", "zero", "above"}

\* ResolveParam(params.dominate_fraction(), depth): the value of the
\* parameter; an absent one resolves to the default 0.
ResolveDominateFraction(p) ==
  IF p.has_dominate_fraction THEN p.dominate_fraction ELSE "zero"

\* prune_fraction_ as set by the constructor's switch.
PruneFractionOf(t) ==
  CASE t = "SPLIT_PRUNE_HALF" -> <<1, 2>>
    [] t = "SPLIT_PRUNE_QUARTER" -> <<1, 4>>
    [] t = "SPLIT_PRUNE_10_PERCENT" -> <<1, 10>>
    [] OTHER -> <<0, 1>>

\* The empty class-id -> weight mapping of the sparse variant.
EmptyMap == [c \in {} |-> 0]
ZeroVector == [c \in Classes |-> 0]

(***************************************************************************)
(* Construction.  GrowStats::GrowStats and, for the classification         *)
(* variants, ClassificationStats::ClassificationStats.  An accumulator is a *)
(* record of the object's fields.  The fields the constructor leaves       *)
(* unassigned are listed in `unassigned` (their value is a placeholder     *)
(* that is never used: a read of such a field is a free choice).           *)
(* LOG(FATAL) aborts the process: status "fatal".                          *)
(***************************************************************************)
GrowStatsCtor(p) ==
  [status |-> "ok",
   split_after_samples_ |-> p.split_after_samples,
   num_splits_to_consider_ |-> p.num_splits_to_consider,
   weight_sum_ |-> 0,
   splits_ |-> <<>>,
   evaluators_ |-> <<>>,
   left_counts_ |-> <<>>,
   total_counts_ |-> EmptyMap,
   total_sum_ |-> EmptyMap,
   total_sum_squares_ |-> EmptyMap,
   num_outputs_seen_ |-> 0,
   finish_early_ |-> FALSE,
   min_split_samples_ |-> 0,
   finish_check_every_ |-> 0,
   finish_sample_epoch_ |-> 0,
   dominate_fraction_ |-> "zero",
   prune_check_every_ |-> 0,
   prune_sample_epoch_ |-> 0,
   prune_fraction_ |-> <<0, 1>>,
   half_ln_dominate_frac_ |-> <<0, 1>>,
   left_gini_ |-> <<>>,
   right_gini_ |-> <<>>,
   unassigned |-> {"min_split_samples_", "finish_check_every_",
                   "finish_sample_epoch_", "dominate_fraction_",
                   "prune_check_every_", "prune_sample_epoch_",
                   "prune_fraction_", "half_ln_dominate_frac_"}]

\* The early-splitting block of the constructor.
CtorFinishParams(p, a) ==
  IF p.finish_type = "SPLIT_FINISH_BASIC"
  THEN [a EXCEPT !.min_split_samples_ = a.split_after_samples_,
                 !.unassigned = @ \ {"min_split_samples_"}]
  ELSE IF ~p.has_dominate_fraction \/ ~p.has_min_split_samples
  THEN [a EXCEPT !.status = "fatal"]
  ELSE LET b == [a EXCEPT !.min_split_samples_ = p.min_split_samples,
                          !.finish_check_every_ = p.check_every_steps,
                          !.finish_sample_epoch_ =
                              p.min_split_samples \div p.check_every_steps,
                          !.dominate_fraction_ = ResolveDominateFraction(p),
                          !.unassigned = @ \ {"min_split_samples_",
                                             "finish_check_every_",
                                             "finish_sample_epoch_",
                                             "dominate_fraction_"}]
       IN IF InvalidDominateFraction(b.dominate_fraction_)
          THEN [b EXCEPT !.status = "fatal"]
          ELSE b

\* The pruning block of the constructor.
CtorPruneParams(p, a) ==
  IF p.pruning_type = "SPLIT_PRUNE_NONE"
  THEN a
  ELSE LET b == [a EXCEPT !.prune_check_every_ = p.prune_every_samples,
                          !.prune_sample_epoch_ = 1,
                          !.prune_fraction_ = PruneFractionOf(p.pruning_type),
                          !.unassigned = @ \ {"prune_check_every_",
                                             "prune_sample_epoch_",
                                             "prune_fraction_"}]
       IN IF p.pruning_type = "SPLIT_PRUNE_HOEFFDING"
          THEN [b EXCEPT !.dominate_fraction_ = ResolveDominateFraction(p),
                         !.half_ln_dominate_frac_ =
                             RMul(<<1, 2>>,
                                  LnInvOneMinus(ResolveDominateFraction(p))),
                         !.unassigned = @ \ {"dominate_fraction_",
                                            "half_ln_dominate_frac_"}]
          ELSE b

\* The running-statistics block: left_gini_ and right_gini_ stay nullptr
\* unless use_running_stats_method is set.
HasRunningStats(p) == p.use_running_stats_method

ClassificationStatsCtor(p) ==
  LET a == CtorFinishParams(p, GrowStatsCtor(p))
  IN IF a.status = "fatal" THEN a ELSE CtorPruneParams(p, a)

\* The accumulator a leaf gets for parameters p.
Construct(p) ==
  IF p.variant = "regression" THEN GrowStatsCtor(p)
  ELSE ClassificationStatsCtor(p)

(***************************************************************************)
(* Candidate splits.  A split definition tests one binary feature; an      *)
(* example is routed LEFT by the evaluator of split s iff feature s is in  *)
(* the example's feature set.  Every per-candidate record carries `of`,    *)
(* the split it was allocated for, so that index alignment can be stated.  *)
(***************************************************************************)
CreateBinaryDecisionNodeEvaluator(split, left, right) ==
  [split |-> split, left |-> left, right |-> right]

Decide(eval, features) ==
  IF eval.split \in features THEN eval.left ELSE eval.right

num_splits(a) == Len(a.splits_)

IsClassification(p) == p.variant \in {"dense", "sparse"}

\* RunningGiniScores::add_split / remove_split / update.
GiniAddSplit(g, split) == Append(g, [of |-> split, sum |-> 0, square |-> 0])
GiniRemoveSplit(g, i) == Erase(g, i + 1)
GiniUpdate(g, i, old_val, weight) ==
  [g EXCEPT ![i + 1].sum = @ + weight,
            ![i + 1].square =
                @ - old_val * old_val + (old_val + weight) * (old_val + weight)]

\* The statistics record allocated for a new candidate.
NewSplitStats(p, split) ==
  CASE p.variant = "dense" -> [of |-> split, counts |-> ZeroVector]
    [] p.variant = "sparse" -> [of |-> split, counts |-> EmptyMap]
    [] OTHER -> [of |-> split, count |-> 0, sum |-> ZeroVector,
                 square |-> ZeroVector]

\* AddSplitStats(): allocate the record of the candidate just appended.
AddSplitStats(p, a) ==
  LET split == a.splits_[Len(a.splits_)]
      b == [a EXCEPT !.left_counts_ = Append(@, NewSplitStats(p, split))]
  IN IF IsClassification(p) /\ HasRunningStats(p)
     THEN [b EXCEPT !.left_gini_ = GiniAddSplit(@, split),
                    !.right_gini_ = GiniAddSplit(@, split)]
     ELSE b

\* RemoveSplitStats(split_num): delete the record at that index.
RemoveSplitStats(p, a, split_num) ==
  LET b == [a EXCEPT !.left_counts_ = Erase(@, split_num + 1)]
  IN IF IsClassification(p) /\ HasRunningStats(p)
     THEN [b EXCEPT !.left_gini_ = GiniRemoveSplit(@, split_num),
                    !.right_gini_ = GiniRemoveSplit(@, split_num)]
     ELSE b

\* GrowStats::AddSplit
AddSplit(p, a, split) ==
  AddSplitStats(p,
    [a EXCEPT !.splits_ = Append(@, split),
              !.evaluators_ = Append(@,
                  CreateBinaryDecisionNodeEvaluator(split, LEFT_INDEX,
                                                    RIGHT_INDEX))])

\* A slip in RemoveSplit: the candidate after split_num is deleted.
RemoveSplit_Next(p, a, split_num) ==
  LET k == IF split_num + 1 < Len(a.splits_) THEN split_num + 1 ELSE 0
  IN RemoveSplitStats(p,
       [a EXCEPT !.splits_ = Erase(@, k + 1),
                 !.evaluators_ = Erase(@, k + 1)],
       k)

\* A slip in RemoveSplit: the statistics record of the next index is deleted.
RemoveSplit_WrongStats(p, a, split_num) ==
  RemoveSplitStats(p,
    [a EXCEPT !.splits_ = Erase(@, split_num + 1),
              !.evaluators_ = Erase(@, split_num + 1)],
    IF split_num + 1 < Len(a.splits_) THEN split_num + 1 ELSE 0)

\* GrowStats::RemoveSplit (split_num is 0-based, as in the code)
RemoveSplit(p, a, split_num) ==
  RemoveSplitStats(p,
    [a EXCEPT !.splits_ = Erase(@, split_num + 1),
              !.evaluators_ = Erase(@, split_num + 1)],
    split_num)

(***************************************************************************)
(* Classification counts.                                                  *)
(***************************************************************************)
\* Lookup in a class-id -> weight container; an absent sparse key is 0.
CountAt(m, c) == IF c \in DOMAIN m THEN m[c] ELSE 0

left_count(a, split, c) == CountAt(a.left_counts_[split + 1].counts, c)
total_count(a, c) == CountAt(a.total_counts_, c)
right_count(a, split, c) == total_count(a, c) - left_count(a, split, c)

\* m[c] += weight; a sparse entry is created on the first nonzero occurrence.
AddCount(m, c, weight) ==
  IF c \in DOMAIN m THEN [m EXCEPT ![c] = @ + weight]
  ELSE IF weight = 0 THEN m
  ELSE [x \in DOMAIN m \cup {c} |-> IF x = c THEN weight ELSE m[x]]

\* Number of distinct output classes seen at the leaf.
num_outputs_seen(p, a) ==
  IF p.variant = "dense" THEN a.num_outputs_seen_
  ELSE Cardinality(DOMAIN a.total_counts_)

ClassificationAddLeftExample(a, split, int_label, weight) ==
  [a EXCEPT !.left_counts_[split + 1].counts = AddCount(@, int_label, weight)]

ClassificationAddTotalExample(p, a, int_label, weight) ==
  [a EXCEPT !.num_outputs_seen_ =
                IF p.variant = "dense" /\ total_count(a, int_label) = 0
                   /\ weight # 0
                THEN @ + 1 ELSE @,
            !.total_counts_ = AddCount(@, int_label, weight)]

\* Weighted Gini impurity of one side: S * (1 - sum (c_i / S)^2), 0 if S = 0.
WeightedSmoothedGini(sum, square, num_classes) ==
  IF sum > 0 THEN <<sum * sum - square, sum>> ELSE RZero

\* A slip in the sparse GiniScore: it scans the keys of the candidate's
\* left counts, not those of the leaf totals.
GiniScore_LeftKeys(p, a, split) ==
  LET keys == IF p.variant = "dense" THEN Classes
              ELSE DOMAIN a.left_counts_[split + 1].counts
      left == [j \in keys |-> left_count(a, split, j)]
      right == [j \in keys |-> total_count(a, j) - left_count(a, split, j)]
      left_sum == SumOver(left, keys)
      right_sum == SumOver(right, keys)
      left_square == SumOver([j \in keys |-> left[j] * left[j]], keys)
      right_square == SumOver([j \in keys |-> right[j] * right[j]], keys)
  IN [left_sum |-> left_sum, right_sum |-> right_sum,
      score |-> RAdd(WeightedSmoothedGini(left_sum, left_square, NumOutputs),
                     WeightedSmoothedGini(right_sum, right_square, NumOutputs))]

\* Dense/SparseClassificationGrowStats::GiniScore.  The dense variant scans
\* every class, the sparse variant the keys of total_counts_.
GiniScore(p, a, split) ==
  LET keys == IF p.variant = "dense" THEN Classes ELSE DOMAIN a.total_counts_
      left == [j \in keys |-> left_count(a, split, j)]
      right == [j \in keys |-> total_count(a, j) - left_count(a, split, j)]
      left_sum == SumOver(left, keys)
      right_sum == SumOver(right, keys)
      left_square == SumOver([j \in keys |-> left[j] * left[j]], keys)
      right_square == SumOver([j \in keys |-> right[j] * right[j]], keys)
  IN [left_sum |-> left_sum, right_sum |-> right_sum,
      score |-> RAdd(WeightedSmoothedGini(left_sum, left_square, NumOutputs),
                     WeightedSmoothedGini(right_sum, right_square, NumOutputs))]

\* ClassificationStats::MaybeCachedGiniScore
MaybeCachedGiniScore(p, a, split) ==
  IF ~HasRunningStats(p) THEN GiniScore(p, a, split)
  ELSE LET l == a.left_gini_[split + 1]
           r == a.right_gini_[split + 1]
       IN [left_sum |-> l.sum, right_sum |-> r.sum,
           score |-> RAdd(WeightedSmoothedGini(l.sum, l.square, NumOutputs),
                          WeightedSmoothedGini(r.sum, r.square, NumOutputs))]

\* A slip in IsFinished: the number of classes seen is not consulted.
IsFinished_AnyClasses(p, a) ==
  IF IsClassification(p)
  THEN a.weight_sum_ >= a.split_after_samples_ \/ a.finish_early_
  ELSE a.weight_sum_ >= a.split_after_samples_

\* ClassificationStats::IsFinished / LeastSquaresRegressionGrowStats::IsFinished
IsFinished(p, a) ==
  IF IsClassification(p)
  THEN \/ (a.weight_sum_ >= a.split_after_samples_ /\ num_outputs_seen(p, a) > 1)
       \/ a.finish_early_
  ELSE a.weight_sum_ >= a.split_after_samples_

(***************************************************************************)
(* Early finish.                                                           *)
(***************************************************************************)
\* Scores of the live candidates, index i of the code at position i + 1.
SplitScores(p, a) ==
  [i \in 1 .. num_splits(a) |-> MaybeCachedGiniScore(p, a, i - 1).score]

\* GetTwoBest: one scan keeping the lowest and second-lowest score, both
\* starting at FLT_MAX with index -1.
RECURSIVE GetTwoBestFrom(_, _, _)
GetTwoBestFrom(scores, i, r) ==
  IF i >= Len(scores) THEN r
  ELSE LET score == scores[i + 1]
       IN GetTwoBestFrom(scores, i + 1,
            IF RLt(score, r.best_score)
            THEN [best_score |-> score, best_index |-> i,
                  second_best_score |-> r.best_score,
                  second_best_index |-> r.best_index]
            ELSE IF RLt(score, r.second_best_score)
            THEN [r EXCEPT !.second_best_score = score,
                           !.second_best_index = i]
            ELSE r)

GetTwoBest(scores) ==
  GetTwoBestFrom(scores, 0,
    [best_score |-> FLT_MAX, best_index |-> -1,
     second_best_score |-> FLT_MAX, second_best_index |-> -1])

\* x > sqrt(sq) for a float x >= 0 and sq the exact square of the bound;
\* sq is +infinity or NaN when the bound is.
ExceedsRoot(x, sq) ==
  /\ ~IsNaN(sq)
  /\ ~IsInf(sq)
  /\ sq[1] >= 0
  /\ IF x = FLT_MAX THEN TRUE
     ELSE RLt(RZero, x) /\ RLt(sq, RMul(x, x))

\* ClassificationStats::CheckFinishEarlyHoeffding.
\* bound = 0.25 n S sqrt(ln(1/(1-d)) / (2 S)), so bound^2 = n^2 S ln(..) / 32;
\* with S = 0 the bound is 0 * infinity, a NaN.
CheckFinishEarlyHoeffding(p, a) ==
  LET S == a.weight_sum_
      n == NumOutputs
      boundSq == IF S = 0 THEN RNaN
                 ELSE RMul(<<n * n * S, 32>>,
                           LnInvOneMinus(a.dominate_fraction_))
      two == GetTwoBest(SplitScores(p, a))
      diff == IF two.second_best_score = FLT_MAX
              THEN (IF two.best_score = FLT_MAX THEN RZero ELSE FLT_MAX)
              ELSE RSub(two.second_best_score, two.best_score)
  IN [a EXCEPT !.finish_early_ = ExceedsRoot(diff, boundSq)]

\* ClassificationStats::CheckFinishEarlyBootstrap: the outcome of the
\* comparison of the resampled scores is the random stream's (nd.bootstrap).
CheckFinishEarlyBootstrap(p, a, nd) ==
  [a EXCEPT !.finish_early_ = nd.bootstrap]

\* Whether CheckFinishEarly, entered in state b, gets past its first test.
FinishCheckDue(b, nd) ==
  /\ ~(b.weight_sum_ < b.min_split_samples_)
  /\ IF "finish_sample_epoch_" \in b.unassigned THEN ~nd.finish_skip
     ELSE ~(b.weight_sum_ < b.finish_sample_epoch_ * b.finish_check_every_)

\* ClassificationStats::CheckFinishEarly.  Under SPLIT_FINISH_BASIC
\* finish_sample_epoch_ and finish_check_every_ were never assigned: the
\* outcome of the epoch comparison is then nd.finish_skip.
CheckFinishEarly(p, a, nd) ==
  IF ~FinishCheckDue(a, nd) THEN a
     ELSE LET b == [a EXCEPT !.finish_sample_epoch_ =
                        IF "finish_sample_epoch_" \in a.unassigned
                        THEN @ ELSE @ + 1]
          IN CASE p.finish_type = "SPLIT_FINISH_DOMINATE_HOEFFDING" ->
                    CheckFinishEarlyHoeffding(p, b)
               [] p.finish_type = "SPLIT_FINISH_DOMINATE_BOOTSTRAP" ->
                    CheckFinishEarlyBootstrap(p, b, nd)
               [] OTHER -> b

\* ClassificationStats::NumBootstrapSamples, one loop iteration at a time.
\* The frame holds the dominate fraction d, the locals p and
\* bootstrap_samples and the position pc: "while" at the loop test,
\* "return" once the value was returned.
NumBootstrapSamples_FromZero(d) ==
  [pc |-> "while", d |-> d, p |-> RSub(<<1, 1>>, d), bootstrap_samples |-> 0]

NumBootstrapSamplesEnter(d) ==
  [pc |-> "while", d |-> d, p |-> RSub(<<1, 1>>, d), bootstrap_samples |-> 1]

NumBootstrapSamplesStep(l) ==
  IF RLt(l.p, <<1, 1>>)
  THEN [l EXCEPT !.bootstrap_samples = @ + 1, !.p = RMul(@, <<2, 1>>)]
  ELSE [l EXCEPT !.pc = "return"]

(***************************************************************************)
(* Pruning.                                                                *)
(***************************************************************************)
\* A slip in CheckPrune: a max-heap, whose top is the largest pair.
HeapTop_Largest(scores, heap) ==
  CHOOSE i \in heap :
    \A j \in heap \ {i} :
      \/ RLt(scores[j + 1], scores[i + 1])
      \/ (REq(scores[i + 1], scores[j + 1]) /\ j < i)

\* The (score, index) pair at the top of the min-heap `worst`: pairs are
\* ordered first by score, then by index.
HeapTop(scores, heap) ==
  CHOOSE i \in heap :
    \A j \in heap \ {i} :
      \/ RLt(scores[i + 1], scores[j + 1])
      \/ (REq(scores[i + 1], scores[j + 1]) /\ i < j)

\* The selection loop of CheckPrune: the set `indices` after candidates
\* i .. n-1 have been scanned, given the index set of the heap so far.
RECURSIVE PruneSelect(_, _, _, _)
PruneSelect(scores, to_remove, i, indices) ==
  IF i >= Len(scores) THEN indices
  ELSE PruneSelect(scores, to_remove, i + 1,
         IF Cardinality(indices) < to_remove
         THEN indices \cup {i}
         ELSE IF RLt(scores[HeapTop(scores, indices) + 1], scores[i + 1])
         THEN (indices \ {HeapTop(scores, indices)}) \cup {i}
         ELSE indices)

\* A slip in CheckPrune: the selected indices are removed smallest first.
RECURSIVE RemoveDescending_Ascending(_, _, _)
RemoveDescending_Ascending(p, a, indices) ==
  IF indices = {} THEN a
  ELSE LET m == CHOOSE i \in indices : \A j \in indices : i <= j
       IN RemoveDescending_Ascending(p, RemoveSplit(p, a, m), indices \ {m})

\* RemoveSplit for every index of the set, largest first.
RECURSIVE RemoveDescending(_, _, _)
RemoveDescending(p, a, indices) ==
  IF indices = {} THEN a
  ELSE LET m == CHOOSE i \in indices : \A j \in indices : j <= i
       IN RemoveDescending(p, RemoveSplit(p, a, m), indices \ {m})

\* A slip in CheckPruneHoeffding: the first score is taken as the best.
BestSplitScore_First(scores, i, best) ==
  IF Len(scores) = 0 THEN best ELSE scores[1]

\* The first loop of CheckPruneHoeffding: the lowest score, from FLT_MAX.
RECURSIVE BestSplitScore(_, _, _)
BestSplitScore(scores, i, best) ==
  IF i >= Len(scores) THEN best
  ELSE BestSplitScore(scores, i + 1,
         IF RLt(scores[i + 1], best) THEN scores[i + 1] ELSE best)

\* ClassificationStats::CheckPruneHoeffding.
\* epsilon = S (1 - 1/n) sqrt(half_ln_dominate_frac_ / S), so
\* epsilon^2 = S (n-1)^2 half_ln / n^2.
CheckPruneHoeffding(p, a) ==
  LET S == a.weight_sum_
      n == NumOutputs
      split_scores == SplitScores(p, a)
      best_split_score == BestSplitScore(split_scores, 0, FLT_MAX)
      epsSq == IF S = 0 THEN RNaN
               ELSE RMul(<<S * (n - 1) * (n - 1), n * n>>,
                         a.half_ln_dominate_frac_)
      doomed == {i \in 0 .. (num_splits(a) - 1) :
                   ExceedsRoot(RSub(split_scores[i + 1], best_split_score),
                               epsSq)}
  IN RemoveDescending(p, a, doomed)

\* A slip in CheckPrune: the fraction is left out of to_remove.
ToRemove_All(a, nd) == num_splits(a)

\* to_remove = num_splits() * prune_fraction_, truncated.
ToRemove(a, nd) ==
  IF "prune_fraction_" \in a.unassigned THEN nd.to_remove
  ELSE (num_splits(a) * a.prune_fraction_[1]) \div a.prune_fraction_[2]

\* The fraction pass of CheckPrune (after the epoch test).
CheckPruneFraction(p, a, nd) ==
  LET to_remove == ToRemove(a, nd)
  IN IF to_remove <= 0 THEN a
     ELSE RemoveDescending(p, a,
            PruneSelect(SplitScores(p, a), to_remove, 0, {}))

\* Whether CheckPrune gets past its first test.  Under SPLIT_PRUNE_NONE
\* prune_sample_epoch_ and prune_check_every_ were never assigned: the
\* outcome of the epoch comparison is then nd.prune_skip.
PruneDue(p, a, nd) ==
  /\ ~IsFinished(p, a)
  /\ IF "prune_sample_epoch_" \in a.unassigned
     THEN ~nd.prune_skip
     ELSE ~(a.weight_sum_ < a.prune_sample_epoch_ * a.prune_check_every_)

\* ClassificationStats::CheckPrune
CheckPrune(p, a, nd) ==
  IF ~PruneDue(p, a, nd) THEN a
  ELSE LET b == [a EXCEPT !.prune_sample_epoch_ =
                     IF "prune_sample_epoch_" \in a.unassigned
                     THEN @ ELSE @ + 1]
       IN IF p.pruning_type = "SPLIT_PRUNE_HOEFFDING"
          THEN CheckPruneHoeffding(p, b)
          ELSE CheckPruneFraction(p, b, nd)

(***************************************************************************)
(* AddExample.  An example is [features, label, weight, target]: the       *)
(* features route it, label and weight are the classification target,      *)
(* target (one value per output) the regression target.                    *)
(***************************************************************************)
\* The loop over the candidates of ClassificationStats::AddExample.
RECURSIVE ClassificationRoute(_, _, _, _)
ClassificationRoute(p, a, ex, i) ==
  IF i >= num_splits(a) THEN a
  ELSE LET left == Decide(a.evaluators_[i + 1], ex.features) = LEFT_INDEX
           g == IF ~HasRunningStats(p) THEN a
                ELSE IF left
                THEN [a EXCEPT !.left_gini_ =
                        GiniUpdate(@, i, left_count(a, i, ex.label), ex.weight)]
                ELSE [a EXCEPT !.right_gini_ =
                        GiniUpdate(@, i, right_count(a, i, ex.label), ex.weight)]
       IN ClassificationRoute(p,
            IF left THEN ClassificationAddLeftExample(g, i, ex.label, ex.weight)
            ELSE g,
            ex, i + 1)

\* A slip in AddExample: the leaf totals are not updated.
ClassificationAccumulate_NoTotal(p, a, ex) ==
  LET b == ClassificationRoute(p, a, ex, 0)
  IN [b EXCEPT !.weight_sum_ = @ + ex.weight]

\* A slip in AddExample: weight_sum_ counts the calls, not the weights.
ClassificationAccumulate_CountsCalls(p, a, ex) ==
  LET b == ClassificationAddTotalExample(p, ClassificationRoute(p, a, ex, 0),
                                         ex.label, ex.weight)
  IN [b EXCEPT !.weight_sum_ = @ + 1]

\* ClassificationStats::AddExample up to and including weight_sum_ += weight.
ClassificationAccumulate(p, a, ex) ==
  LET b == ClassificationAddTotalExample(p, ClassificationRoute(p, a, ex, 0),
                                         ex.label, ex.weight)
  IN [b EXCEPT !.weight_sum_ = @ + ex.weight]

\* The state in which CheckPrune is entered.
BeforePrune(p, a, ex, nd) ==
  CheckFinishEarly(p, ClassificationAccumulate(p, a, ex), nd)

\* ClassificationStats::AddExample
ClassificationAddExample(p, a, ex, nd) ==
  CheckPrune(p, BeforePrune(p, a, ex, nd), nd)

\* The loop over the candidates of LeastSquaresRegressionGrowStats::AddExample.
RegressionRoute(a, ex) ==
  [a EXCEPT !.left_counts_ =
     [i \in 1 .. Len(@) |->
        IF Decide(a.evaluators_[i], ex.features) = LEFT_INDEX
        THEN [@[i] EXCEPT
                !.sum = [j \in Classes |-> @[j] + ex.target[j]],
                !.square = [j \in Classes |-> @[j] + ex.target[j] * ex.target[j]],
                !.count = @ + 1]
        ELSE @[i]]]

\* LeastSquaresRegressionGrowStats::AddExample
RegressionAddExample(a, ex) ==
  [RegressionRoute(a, ex) EXCEPT
     !.total_sum_ = [i \in Classes |-> @[i] + ex.target[i]],
     !.total_sum_squares_ = [i \in Classes |-> @[i] + ex.target[i] * ex.target[i]],
     !.weight_sum_ = @ + 1]

AddExample(p, a, ex, nd) ==
  IF IsClassification(p) THEN ClassificationAddExample(p, a, ex, nd)
  ELSE RegressionAddExample(a, ex)

(***************************************************************************)
(* Regression scoring.                                                     *)
(***************************************************************************)
left_sum(a, split, i) == a.left_counts_[split + 1].sum[i]
left_square(a, split, i) == a.left_counts_[split + 1].square[i]
left_weight(a, split) == a.left_counts_[split + 1].count

RECURSIVE RSumOver(_, _)
RSumOver(f, dom) ==
  IF dom = {} THEN RZero
  ELSE LET x == CHOOSE y \in dom : TRUE IN RAdd(f[x], RSumOver(f, dom \ {x}))

\* LeastSquaresRegressionGrowStats::SplitVariance, for a candidate with
\* weight on both sides: E[x^2] - E[x]^2 of each side, summed over outputs.
SplitVariance(a, split) ==
  LET lc == left_weight(a, split)
      rc == a.weight_sum_ - lc
  IN RSumOver(
       [i \in Classes |->
          RAdd(<<left_square(a, split, i) * lc
                   - left_sum(a, split, i) * left_sum(a, split, i), lc * lc>>,
               <<(a.total_sum_squares_[i] - left_square(a, split, i)) * rc
                   - (a.total_sum_[i] - left_sum(a, split, i))
                     * (a.total_sum_[i] - left_sum(a, split, i)), rc * rc>>)],
       Classes)

(***************************************************************************)
(* BestSplit.                                                              *)
(***************************************************************************)
\* What one candidate offers to the selection loop: whether it passes the
\* both-sides-positive test, and its score.
Offer(p, a, i) ==
  IF IsClassification(p)
  THEN LET g == MaybeCachedGiniScore(p, a, i)
       IN [usable |-> g.left_sum > 0 /\ g.right_sum > 0, score |-> g.score,
           left_sum |-> g.left_sum, right_sum |-> g.right_sum]
  ELSE LET usable == left_weight(a, i) > 0
                     /\ a.weight_sum_ - left_weight(a, i) > 0
       IN [usable |-> usable,
           score |-> IF usable THEN SplitVariance(a, i) ELSE FLT_MAX,
           left_sum |-> left_weight(a, i),
           right_sum |-> a.weight_sum_ - left_weight(a, i)]

\* The selection loop of BestSplit: best_index after candidates i .. n-1.
RECURSIVE BestIndexFrom(_, _, _, _, _)
BestIndexFrom(p, a, i, min_score, best_index) ==
  IF i >= num_splits(a) THEN best_index
  ELSE LET o == Offer(p, a, i)
       IN IF o.usable /\ RLt(o.score, min_score)
          THEN BestIndexFrom(p, a, i + 1, o.score, i)
          ELSE BestIndexFrom(p, a, i + 1, min_score, best_index)

\* A repeated-value block of a record: value(i) is at position i + 1.
DenseBlock(f) == [i \in 1 .. NumOutputs |-> f[i - 1]]

\* A slip in the sparse BestSplit: a right count is written for every key
\* of the leaf totals, also when nothing of the class went right.
BestSplitStats_AllKeys(p, a, best_index) ==
  LET o == Offer(p, a, best_index)
  IN CASE p.variant = "dense" ->
            [left |-> [weight_sum |-> o.left_sum,
                       counts |-> DenseBlock([c \in Classes |->
                                     left_count(a, best_index, c)])],
             right |-> [weight_sum |-> o.right_sum,
                        counts |-> DenseBlock([c \in Classes |->
                                     a.total_counts_[c]
                                       - left_count(a, best_index, c)])]]
       [] p.variant = "sparse" ->
            LET lc == a.left_counts_[best_index + 1].counts
                tot == a.total_counts_
            IN [left |-> [weight_sum |-> o.left_sum,
                          counts |-> [c \in DOMAIN tot \cap DOMAIN lc |-> lc[c]]],
                right |-> [weight_sum |-> o.right_sum,
                           counts |-> [c \in DOMAIN tot |->
                                         IF c \in DOMAIN lc THEN tot[c] - lc[c]
                                         ELSE tot[c]]]]
       [] OTHER ->
            [left |-> [weight_sum |-> left_weight(a, best_index),
                       counts |-> DenseBlock([i \in Classes |->
                                     left_sum(a, best_index, i)])],
             right |-> [weight_sum |-> a.weight_sum_ - left_weight(a, best_index),
                        counts |-> DenseBlock([i \in Classes |->
                                      a.total_sum_[i] - left_sum(a, best_index, i)])]]

\* The statistics BestSplit writes for the winning candidate.
BestSplitStats(p, a, best_index) ==
  LET o == Offer(p, a, best_index)
  IN CASE p.variant = "dense" ->
            [left |-> [weight_sum |-> o.left_sum,
                       counts |-> DenseBlock([c \in Classes |->
                                     left_count(a, best_index, c)])],
             right |-> [weight_sum |-> o.right_sum,
                        counts |-> DenseBlock([c \in Classes |->
                                     a.total_counts_[c]
                                       - left_count(a, best_index, c)])]]
       [] p.variant = "sparse" ->
            LET lc == a.left_counts_[best_index + 1].counts
                tot == a.total_counts_
                rkeys == {c \in DOMAIN tot :
                            c \notin DOMAIN lc \/ tot[c] - lc[c] > 0}
            IN [left |-> [weight_sum |-> o.left_sum,
                          counts |-> [c \in DOMAIN tot \cap DOMAIN lc |-> lc[c]]],
                right |-> [weight_sum |-> o.right_sum,
                           counts |-> [c \in rkeys |->
                                         IF c \in DOMAIN lc THEN tot[c] - lc[c]
                                         ELSE tot[c]]]]
       [] OTHER ->
            [left |-> [weight_sum |-> left_weight(a, best_index),
                       counts |-> DenseBlock([i \in Classes |->
                                     left_sum(a, best_index, i)])],
             right |-> [weight_sum |-> a.weight_sum_ - left_weight(a, best_index),
                        counts |-> DenseBlock([i \in Classes |->
                                      a.total_sum_[i] - left_sum(a, best_index, i)])]]

NoStats == [left |-> [weight_sum |-> 0, counts |-> <<>>],
            right |-> [weight_sum |-> 0, counts |-> <<>>]]

\* Dense/Sparse/LeastSquaresRegression ...::BestSplit: the success flag and
\* the SplitCandidate written on success.
BestSplit(p, a) ==
  LET best_index == BestIndexFrom(p, a, 0, FLT_MAX, -1)
  IN IF best_index < 0
     THEN [ok |-> FALSE, best_index |-> -1, split |-> 0, stats |-> NoStats]
     ELSE [ok |-> TRUE, best_index |-> best_index,
           split |-> a.splits_[best_index + 1],
           stats |-> BestSplitStats(p, a, best_index)]

(***************************************************************************)
(* Serialization.  A FertileSlot record is                                 *)
(*   [has_post_init_leaf_stats, post_init_leaf_stats, candidates]          *)
(* with a statistics block [weight_sum, counts, squares]: counts is the    *)
(* dense_counts value list, the sparse_counts map or the regression        *)
(* mean_output list, squares the regression mean_output_squares list.      *)
(***************************************************************************)
\* Initialize(): reset to the empty leaf, with the totals sized.
Initialize(p, a) ==
  [a EXCEPT !.weight_sum_ = 0,
            !.splits_ = <<>>,
            !.evaluators_ = <<>>,
            !.left_counts_ = <<>>,
            !.left_gini_ = <<>>,
            !.right_gini_ = <<>>,
            !.num_outputs_seen_ = 0,
            !.total_counts_ = IF p.variant = "dense" THEN ZeroVector ELSE EmptyMap,
            !.total_sum_ = IF p.variant = "regression" THEN ZeroVector ELSE EmptyMap,
            !.total_sum_squares_ =
                IF p.variant = "regression" THEN ZeroVector ELSE EmptyMap]

\* The statistics block PackToProto writes for candidate split_num.
PackLeftStats(p, a, split_num) ==
  CASE p.variant = "dense" ->
         [weight_sum |-> 0,
          counts |-> DenseBlock([c \in Classes |-> left_count(a, split_num, c)]),
          squares |-> <<>>]
    [] p.variant = "sparse" ->
         [weight_sum |-> 0,
          counts |-> a.left_counts_[split_num + 1].counts,
          squares |-> <<>>]
    [] OTHER ->
         [weight_sum |-> left_weight(a, split_num),
          counts |-> DenseBlock([i \in Classes |-> left_sum(a, split_num, i)]),
          squares |-> DenseBlock([i \in Classes |-> left_square(a, split_num, i)])]

\* A slip in PackToProto: the candidates are written last to first.
PackToProto_Reversed(p, a) ==
  [has_post_init_leaf_stats |-> TRUE,
   post_init_leaf_stats |->
     [weight_sum |-> a.weight_sum_,
      counts |-> CASE p.variant = "dense" -> DenseBlock(a.total_counts_)
                   [] p.variant = "sparse" -> a.total_counts_
                   [] OTHER -> DenseBlock(a.total_sum_),
      squares |-> IF IsClassification(p) THEN <<>>
                  ELSE DenseBlock(a.total_sum_squares_)],
   candidates |->
     [k \in 1 .. num_splits(a) |->
        [split |-> a.splits_[num_splits(a) + 1 - k],
         left_stats |-> PackLeftStats(p, a, num_splits(a) - k)]]]

\* Dense/Sparse/LeastSquaresRegression ...::PackToProto
PackToProto(p, a) ==
  [has_post_init_leaf_stats |-> TRUE,
   post_init_leaf_stats |->
     CASE p.variant = "dense" ->
            [weight_sum |-> a.weight_sum_,
             counts |-> DenseBlock(a.total_counts_), squares |-> <<>>]
       [] p.variant = "sparse" ->
            [weight_sum |-> a.weight_sum_,
             counts |-> a.total_counts_, squares |-> <<>>]
       [] OTHER ->
            [weight_sum |-> a.weight_sum_,
             counts |-> DenseBlock(a.total_sum_),
             squares |-> DenseBlock(a.total_sum_squares_)],
   candidates |->
     [k \in 1 .. num_splits(a) |->
        [split |-> a.splits_[k], left_stats |-> PackLeftStats(p, a, k - 1)]]]

\* MaybeInitializeRunningCount(split, val): left_gini_->update(split, 0, val)
MaybeInitializeRunningCount(p, a, split_num, val) ==
  IF HasRunningStats(p)
  THEN [a EXCEPT !.left_gini_ = GiniUpdate(@, split_num, 0, val)]
  ELSE a

\* The inner loop of ExtractFromProto over the values of one candidate's
\* left statistics (keys: the classes still to load).
RECURSIVE ExtractLeftCounts(_, _, _, _, _)
ExtractLeftCounts(p, a, split_num, block, keys) ==
  IF keys = {} THEN a
  ELSE LET c == CHOOSE x \in keys : \A y \in keys : x <= y
           val == IF p.variant = "dense" THEN block[c + 1] ELSE block[c]
           b == [a EXCEPT !.left_counts_[split_num + 1].counts =
                   [x \in DOMAIN @ \cup {c} |-> IF x = c THEN val ELSE @[x]]]
       IN ExtractLeftCounts(p,
            MaybeInitializeRunningCount(p, b, split_num, val),
            split_num, block, keys \ {c})

\* The loop of ExtractFromProto over slot.candidates().
RECURSIVE ExtractCandidates(_, _, _, _)
ExtractCandidates(p, a, cands, split_num) ==
  IF split_num >= Len(cands) THEN a
  ELSE LET cand == cands[split_num + 1]
           b == AddSplit(p, a, cand.split)
           c == IF IsClassification(p)
                THEN ExtractLeftCounts(p, b, split_num, cand.left_stats.counts,
                       IF p.variant = "dense" THEN Classes
                       ELSE DOMAIN cand.left_stats.counts)
                ELSE [b EXCEPT !.left_counts_[split_num + 1] =
                        [of |-> @.of,
                         count |-> cand.left_stats.weight_sum,
                         sum |-> [i \in Classes |-> cand.left_stats.counts[i + 1]],
                         square |-> [i \in Classes |->
                                       cand.left_stats.squares[i + 1]]]]
       IN ExtractCandidates(p, c, cands, split_num + 1)

\* The totals ExtractFromProto loads from post_init_leaf_stats.
ExtractTotals(p, a, stats) ==
  CASE p.variant = "dense" ->
         [a EXCEPT !.weight_sum_ = stats.weight_sum,
                   !.total_counts_ = [i \in Classes |-> stats.counts[i + 1]],
                   !.num_outputs_seen_ =
                       @ + Cardinality({i \in Classes : stats.counts[i + 1] # 0})]
    [] p.variant = "sparse" ->
         [a EXCEPT !.weight_sum_ = stats.weight_sum,
                   !.total_counts_ = [c \in DOMAIN stats.counts |-> stats.counts[c]]]
    [] OTHER ->
         [a EXCEPT !.weight_sum_ = stats.weight_sum,
                   !.total_sum_ = [i \in Classes |-> stats.counts[i + 1]],
                   !.total_sum_squares_ = [i \in Classes |-> stats.squares[i + 1]]]

\* A slip in ExtractFromProto: the accumulator is not reset first.
ExtractFromProto_NoReset(p, a, slot) ==
  IF ~slot.has_post_init_leaf_stats THEN a
  ELSE ExtractCandidates(p, ExtractTotals(p, a, slot.post_init_leaf_stats),
                         slot.candidates, num_splits(a))

\* Dense/Sparse/LeastSquaresRegression ...::ExtractFromProto
ExtractFromProto(p, a, slot) ==
  LET b == Initialize(p, a)
  IN IF ~slot.has_post_init_leaf_stats THEN b
     ELSE ExtractCandidates(p, ExtractTotals(p, b, slot.post_init_leaf_stats),
                            slot.candidates, 0)

(***************************************************************************)
(* Inputs.                                                                 *)
(***************************************************************************)
\* Parameters of a dense classification leaf with no early finish, no
\* pruning and recomputed scores; the parameter sets below vary it.
DefaultParams ==
  [variant |-> "dense",
   finish_type |-> "SPLIT_FINISH_BASIC",
   pruning_type |-> "SPLIT_PRUNE_NONE",
   use_running_stats_method |-> FALSE,
   has_dominate_fraction |-> TRUE,
   dominate_fraction |-> "low",
   has_min_split_samples |-> TRUE,
   min_split_samples |-> 1,
   split_after_samples |-> 2,
   num_splits_to_consider |-> MaxSplits,
   check_every_steps |-> 1,
   prune_every_samples |-> 1]

\* The split definitions proposed to a leaf.
SplitDefs(p) == 1 .. p.num_splits_to_consider

\* Every selection of strategies, with every presence and value of the two
\* optional parameters.
AllParams ==
  {[DefaultParams EXCEPT !.variant = v, !.finish_type = f,
                         !.pruning_type = pr, !.has_dominate_fraction = hd,
                         !.dominate_fraction = d,
                         !.has_min_split_samples = hm] :
     v \in {"dense", "sparse"}, f \in FinishTypes, pr \in PruneTypes,
     hd \in BOOLEAN, d \in DominateFractions, hm \in BOOLEAN}

\* The leaves grown under Spec: a dense leaf with the running-statistics
\* cache (and one candidate fewer), a sparse leaf without it, and a
\* regression leaf.
GrownParams ==
  {[DefaultParams EXCEPT !.use_running_stats_method = TRUE,
                         !.num_splits_to_consider = MaxSplits - 1,
                         !.pruning_type = "SPLIT_PRUNE_HALF"],
   [DefaultParams EXCEPT !.variant = "sparse",
                         !.pruning_type = "SPLIT_PRUNE_HALF"],
   [DefaultParams EXCEPT !.variant = "regression"]}

\* The leaves grown under SpecFinish: every finish type, dense and sparse,
\* and a regression leaf, with MaxSplits - 1 candidates.
FinishParams ==
  {[DefaultParams EXCEPT !.variant = v, !.finish_type = f,
                         !.num_splits_to_consider = MaxSplits - 1,
                         !.pruning_type = "SPLIT_PRUNE_HALF"] :
     v \in {"dense", "sparse"}, f \in FinishTypes}
  \cup {[DefaultParams EXCEPT !.variant = "regression",
                              !.num_splits_to_consider = MaxSplits - 1]}

\* The leaves grown under SpecPrune: every pruning strategy, with enough
\* candidates for the fraction to remove some (4 for a half and for a
\* quarter, 10 for 10%): a dense leaf with the running-statistics cache and
\* a sparse leaf without it, pruned once MaxWeightSum samples have arrived,
\* and a dense leaf pruned at every sample.  No leaf is finished before
\* MaxWeightSum + 1 samples.
PruneParams ==
  {[DefaultParams EXCEPT !.variant = c[1],
                         !.use_running_stats_method = c[2],
                         !.prune_every_samples = MaxWeightSum,
                         !.pruning_type = t[1],
                         !.num_splits_to_consider = t[2],
                         !.split_after_samples = MaxWeightSum + 1] :
     c \in {<<"dense", TRUE>>, <<"sparse", FALSE>>},
     t \in {<<"SPLIT_PRUNE_HALF", 4>>, <<"SPLIT_PRUNE_QUARTER", 4>>,
            <<"SPLIT_PRUNE_10_PERCENT", 10>>}}
  \cup {[DefaultParams EXCEPT !.pruning_type = "SPLIT_PRUNE_HALF",
                              !.split_after_samples = MaxWeightSum + 1]}

HoeffdingPruneParams ==
  {[DefaultParams EXCEPT !.variant = v,
                         !.pruning_type = "SPLIT_PRUNE_HOEFFDING",
                         !.dominate_fraction = d,
                         !.use_running_stats_method = r,
                         !.prune_every_samples = e,
                         !.split_after_samples = MaxWeightSum + 1] :
     v \in {"dense", "sparse"}, d \in DominateFractions, r \in BOOLEAN,
     e \in {1, 2}}

\* The leaves grown under SpecSchedule, fed MaxExamples examples of weight
\* 1: every finish type, checked every N samples from M samples on, and
\* fraction pruning (a half, or a quarter, which removes none of MaxSplits
\* - 1 candidates) every E samples.  No leaf reaches split_after_samples.
ScheduleParams ==
  {[DefaultParams EXCEPT !.finish_type = f,
                         !.check_every_steps = n,
                         !.min_split_samples = m,
                         !.pruning_type = t,
                         !.prune_every_samples = e,
                         !.num_splits_to_consider = MaxSplits - 1,
                         !.split_after_samples = MaxExamples + 1] :
     f \in FinishTypes, n \in 1 .. MaxEvery, m \in 1 .. MaxEvery + 1,
     e \in 1 .. MaxEvery,
     t \in {"SPLIT_PRUNE_HALF", "SPLIT_PRUNE_QUARTER"}}

\* The dense leaves grown under SpecPair next to a sparse twin: without
\* early finish and with the Hoeffding finish, with half and with Hoeffding
\* pruning, scores recomputed or cached.
PairParams ==
  {[DefaultParams EXCEPT !.finish_type = f,
                         !.pruning_type = t,
                         !.use_running_stats_method = r,
                         !.num_splits_to_consider = MaxSplits - 1] :
     f \in {"SPLIT_FINISH_BASIC", "SPLIT_FINISH_DOMINATE_HOEFFDING"},
     t \in {"SPLIT_PRUNE_HALF", "SPLIT_PRUNE_HOEFFDING"},
     r \in BOOLEAN}

\* The leaves grown under SpecResume, fed examples of weight 1: dense and
\* sparse, every finish type checked at every sample, half and quarter
\* pruning every MaxEvery samples.  No leaf reaches split_after_samples.
ResumeParams ==
  {[DefaultParams EXCEPT !.variant = v,
                         !.finish_type = f,
                         !.pruning_type = t,
                         !.prune_every_samples = MaxEvery,
                         !.num_splits_to_consider = MaxSplits - 1,
                         !.split_after_samples = MaxExamples + 1] :
     v \in {"dense", "sparse"}, f \in FinishTypes,
     t \in {"SPLIT_PRUNE_HALF", "SPLIT_PRUNE_QUARTER"}}

\* The dominate fractions NumBootstrapSamples is run for, and the
\* representative value that stands for each in the parameters.
SampleFractions == {<<k, FractionDen>> : k \in (-1) .. (FractionDen + 1)}
FractionClass(d) ==
  CASE RLt(d, RZero) -> "neg"
    [] REq(d, RZero) -> "zero"
    [] RLt(<<1, 1>>, d) -> "above"
    [] REq(d, <<1, 1>>) -> "one"
    [] RLt(d, <<1, 2>>) -> "low"
    [] OTHER -> "high"

\* Examples whose feature set is one of F.
ClassificationExamples(F) ==
  [features : F, label : Classes, weight : Weights, target : {ZeroVector}]
RegressionExamples(F) ==
  [features : F, label : {0}, weight : Weights,
   target : [Classes -> TargetValues]]
Examples(p, F) ==
  IF IsClassification(p) THEN ClassificationExamples(F)
  ELSE RegressionExamples(F)

\* Feature sets that route the candidates 1 .. k left and the others right.
NestedFeatures(p) == {1 .. k : k \in 0 .. p.num_splits_to_consider}

\* The free choices of one AddExample call: the outcome of each comparison
\* that reads a field the constructor left unassigned, and the outcome of
\* the bootstrap resampling.  finish_sample_epoch_ is unassigned only under
\* SPLIT_FINISH_BASIC, where CheckFinishEarly does nothing after its test
\* whichever way the test goes: one outcome is enumerated.  A pass with a
\* never-assigned prune_fraction_ removes nd.to_remove candidates.
NoChoice == [finish_skip |-> FALSE, bootstrap |-> FALSE, prune_skip |-> FALSE,
             to_remove |-> 0]
Choices(p, a) ==
  IF ~IsClassification(p) THEN {NoChoice}
  ELSE {nd \in [finish_skip : {FALSE},
                bootstrap : IF p.finish_type = "SPLIT_FINISH_DOMINATE_BOOTSTRAP"
                            THEN BOOLEAN ELSE {FALSE},
                prune_skip : IF "prune_sample_epoch_" \in a.unassigned
                             THEN BOOLEAN ELSE {FALSE},
                to_remove : IF "prune_fraction_" \in a.unassigned
                            THEN 0 .. MaxSplits ELSE {0}] :
          \* a choice that cannot be read is left at its default
          nd.prune_skip => nd.to_remove = 0}

Range(q) == {q[i] : i \in DOMAIN q}

\* Parameters under which the records handed to ExtractFromProto were
\* written: the record layout depends on the variant alone.
PlainParams(variant) ==
  [DefaultParams EXCEPT !.variant = variant]

\* The candidates of a record with n candidates: splits n, n-1, ..., 1.
SlotSplits(n) == [i \in 1 .. n |-> n + 1 - i]

RECURSIVE AddSplits(_, _, _)
AddSplits(p, a, q) ==
  IF q = <<>> THEN a ELSE AddSplits(p, AddSplit(p, a, Head(q)), Tail(q))

\* The statistics of leaves that were fed examples of total weight at most w.
RECURSIVE FedLeaves(_, _, _)
FedLeaves(p, start, w) ==
  IF w = 0 THEN start
  ELSE LET before == FedLeaves(p, start, w - 1)
       IN before \cup
          UNION {{IF IsClassification(p) THEN ClassificationAccumulate(p, a, ex)
                  ELSE RegressionAddExample(a, ex) :
                    ex \in {e \in Examples(p, SUBSET Range(a.splits_)) :
                              e.weight = 1}} :
                   a \in {b \in before : b.weight_sum_ = w - 1}}

\* The FertileSlot records ExtractFromProto is given: the records
\* PackToProto wrote for leaves with at most MaxSlotCands candidates and at
\* most MaxSlotWeight examples, and the records of leaves whose candidates
\* were proposed but that have no post-init statistics yet.
SlotInputs(variant) ==
  LET p == PlainParams(variant)
      empty == Initialize(p, Construct(p))
      start == {AddSplits(p, empty, SlotSplits(n)) : n \in 0 .. MaxSlotCands}
      packed == {PackToProto(p, a) : a \in FedLeaves(p, start, MaxSlotWeight)}
  IN packed \cup
     {[r EXCEPT !.has_post_init_leaf_stats = FALSE] :
        r \in {x \in packed : x.post_init_leaf_stats.weight_sum = 0}}

SlotTable == [variant \in Variants |-> SlotInputs(variant)]

NoSlot == [has_post_init_leaf_stats |-> FALSE,
           post_init_leaf_stats |->
             [weight_sum |-> 0, counts |-> <<>>, squares |-> <<>>],
           candidates |-> <<>>]
NoTwin == [status |-> "none"]
NoTwinCall == [checked |-> FALSE, pruned |-> FALSE]
NoLoop == [pc |-> "none", d |-> RZero, p |-> RZero, bootstrap_samples |-> 0]
NoBest == [ok |-> FALSE, best_index |-> -1, split |-> 0, stats |-> NoStats]

(***************************************************************************)
(* The state: the parameters the leaf was created with, the accumulator    *)
(* object, and the last call made on it with what it returned.  Under      *)
(* SpecPair last.twin is a second accumulator, the sparse variant created  *)
(* with the same parameters and given the same calls.                      *)
(***************************************************************************)
VARIABLES params_, stats, last

vars == <<params_, stats, last>>

Call(op) ==
  [op |-> op, split_num |-> -1, weight |-> 0, checked |-> FALSE,
   pruned |-> FALSE, removed |-> 0, entered |-> <<>>, best |-> NoBest,
   slot |-> NoSlot, twin |-> NoTwin, twin_call |-> NoTwinCall,
   loop |-> NoLoop]

\* The candidates a prune pass is entered with: for each index the split,
\* its score and its statistics record, before any removal.
Entered(p, a) ==
  [i \in 1 .. num_splits(a) |->
     [of |-> a.splits_[i], score |-> SplitScores(p, a)[i],
      stats |-> a.left_counts_[i]]]

\* A leaf opened for growth: constructed, then Initialize()d.
NewLeaf(p) ==
  LET a == Construct(p)
  IN IF a.status = "fatal" THEN a ELSE Initialize(p, a)

InitWith(P) ==
  /\ params_ \in P
  /\ stats = NewLeaf(params_)
  /\ last = Call("new")

Init == InitWith(GrownParams)

AddSplitCall ==
  /\ stats.status = "ok"
  /\ \E split \in SplitDefs(params_) \ Range(stats.splits_) :
       /\ stats' = AddSplit(params_, stats, split)
       /\ last' = Call("AddSplit")
  /\ UNCHANGED params_

\* The candidates of a new leaf are proposed in order, before any example.
ProposeSplitCall ==
  /\ stats.status = "ok"
  /\ stats.weight_sum_ = 0
  /\ num_splits(stats) < params_.num_splits_to_consider
  /\ num_splits(stats) + 1 \notin Range(stats.splits_)
  /\ stats' = AddSplit(params_, stats, num_splits(stats) + 1)
  /\ last' = Call("AddSplit")
  /\ UNCHANGED params_

RemoveSplitCall ==
  /\ stats.status = "ok"
  /\ \E split_num \in 0 .. (num_splits(stats) - 1) :
       /\ stats' = RemoveSplit(params_, stats, split_num)
       /\ last' = [Call("RemoveSplit") EXCEPT !.split_num = split_num]
  /\ UNCHANGED params_

\* AddExample with one of the examples E, on a leaf that has room for it
\* below the total weight max.
AddExampleFrom(E, max) ==
  /\ stats.status = "ok"
  /\ \E ex \in E :
       /\ stats.weight_sum_ + (IF IsClassification(params_) THEN ex.weight
                               ELSE 1) <= max
       /\ \E nd \in Choices(params_, stats) :
            IF IsClassification(params_)
            THEN LET b == ClassificationAccumulate(params_, stats, ex)
                     c == CheckFinishEarly(params_, b, nd)
                     d == CheckPrune(params_, c, nd)
                 IN /\ stats' = d
                    /\ last' = [Call("AddExample") EXCEPT
                                  !.weight = ex.weight,
                                  !.checked =
                                      /\ FinishCheckDue(b, nd)
                                      /\ params_.finish_type # "SPLIT_FINISH_BASIC",
                                  !.pruned = PruneDue(params_, c, nd),
                                  !.removed = num_splits(c) - num_splits(d),
                                  !.entered =
                                      IF PruneDue(params_, c, nd)
                                      THEN Entered(params_, c) ELSE <<>>]
            ELSE /\ stats' = AddExample(params_, stats, ex, nd)
                 /\ last' = [Call("AddExample") EXCEPT !.weight = ex.weight]
  /\ UNCHANGED params_

AddExampleWith(F) == AddExampleFrom(Examples(params_, F), MaxWeightSum)

\* AddExample with an example routed by any subset of the live candidates.
AddExampleCall == AddExampleWith(SUBSET Range(stats.splits_))

\* AddExample with an example routed left by the candidates 1 .. k.
AddExampleNestedCall == AddExampleWith(NestedFeatures(params_))

BestSplitCall ==
  /\ stats.status = "ok"
  /\ last' = [Call("BestSplit") EXCEPT !.best = BestSplit(params_, stats)]
  /\ UNCHANGED <<params_, stats>>

PackToProtoCall ==
  /\ stats.status = "ok"
  /\ last' = [Call("PackToProto") EXCEPT !.slot = PackToProto(params_, stats)]
  /\ UNCHANGED <<params_, stats>>

ExtractFromProtoCall ==
  /\ stats.status = "ok"
  /\ \E slot \in SlotTable[params_.variant] :
       /\ stats' = ExtractFromProto(params_, stats, slot)
       /\ last' = [Call("ExtractFromProto") EXCEPT !.slot = slot]
  /\ UNCHANGED params_

Next ==
  \/ AddSplitCall
  \/ RemoveSplitCall
  \/ AddExampleCall
  \/ BestSplitCall
  \/ PackToProtoCall
  \/ ExtractFromProtoCall

Spec == Init /\ [][Next]_vars

\* Construction under every parameter selection, followed by read-only calls.
NextCtor == BestSplitCall \/ PackToProtoCall
SpecCtor == InitWith(AllParams) /\ [][NextCtor]_vars

\* Leaves under every finish type.
NextFinish == AddSplitCall \/ AddExampleCall \/ ExtractFromProtoCall
SpecFinish == InitWith(FinishParams) /\ [][NextFinish]_vars

\* Leaves fed examples of weight 1 after their candidates were proposed.
AddExampleUnitCall ==
  AddExampleFrom({e \in Examples(params_, NestedFeatures(params_)) :
                    e.weight = 1}, MaxExamples)
NextSchedule == ProposeSplitCall \/ AddExampleUnitCall
SpecSchedule == InitWith(ScheduleParams) /\ [][NextSchedule]_vars

\* A dense and a sparse accumulator created with the same parameters and
\* given the same calls.
SparseParams == [params_ EXCEPT !.variant = "sparse"]

InitPair ==
  /\ params_ \in PairParams
  /\ stats = NewLeaf(params_)
  /\ last = [Call("new") EXCEPT !.twin = NewLeaf(SparseParams)]

AddSplitPairCall ==
  /\ \E split \in SplitDefs(params_) \ Range(stats.splits_) :
       /\ stats' = AddSplit(params_, stats, split)
       /\ last' = [Call("AddSplit") EXCEPT
                     !.twin = AddSplit(SparseParams, last.twin, split)]
  /\ UNCHANGED params_

AddExamplePairCall ==
  /\ \E ex \in ClassificationExamples(SUBSET (SplitDefs(params_))) :
       /\ stats.weight_sum_ + ex.weight <= MaxWeightSum
       /\ \E nd \in Choices(params_, stats) :
            /\ stats' = AddExample(params_, stats, ex, nd)
            /\ last' = [Call("AddExample") EXCEPT
                          !.weight = ex.weight,
                          !.twin = AddExample(SparseParams, last.twin, ex, nd)]
  /\ UNCHANGED params_

NextPair == AddSplitPairCall \/ AddExamplePairCall
SpecPair == InitPair /\ [][NextPair]_vars

\* NumBootstrapSamples on leaves with the bootstrap finish, for every
\* dominate fraction k / FractionDen the constructor accepts.
InitSamples ==
  \E d \in SampleFractions :
    /\ params_ = [DefaultParams EXCEPT
                    !.finish_type = "SPLIT_FINISH_DOMINATE_BOOTSTRAP",
                    !.dominate_fraction = FractionClass(d)]
    /\ stats = NewLeaf(params_)
    /\ last = [Call("new") EXCEPT !.loop = [NoLoop EXCEPT !.d = d]]

NumBootstrapSamplesCall ==
  /\ stats.status = "ok"
  /\ last.loop.pc = "none"
  /\ last' = [Call("NumBootstrapSamples") EXCEPT
                !.loop = NumBootstrapSamplesEnter(last.loop.d)]
  /\ UNCHANGED <<params_, stats>>

NumBootstrapSamplesLoop ==
  /\ last.loop.pc = "while"
  /\ last.loop.bootstrap_samples < MaxSamples
  /\ last' = [last EXCEPT !.loop = NumBootstrapSamplesStep(@)]
  /\ UNCHANGED <<params_, stats>>

NextSamples == NumBootstrapSamplesCall \/ NumBootstrapSamplesLoop
SpecSamples == InitSamples /\ [][NextSamples]_vars

\* The while loop of NumBootstrapSamples run for as long as its condition
\* holds.  Whether the loop is left depends on p alone; the int counter is
\* kept modulo MaxSamples, which no accepted fraction k / FractionDen below
\* 1 reaches.  A function that was called keeps executing, hence the weak
\* fairness on its steps.
NumBootstrapSamplesIterate ==
  /\ last.loop.pc = "while"
  /\ last' = [last EXCEPT
                !.loop = [NumBootstrapSamplesStep(@) EXCEPT
                            !.bootstrap_samples = @ % MaxSamples]]
  /\ UNCHANGED <<params_, stats>>

NextSamplesFair == NumBootstrapSamplesCall \/ NumBootstrapSamplesIterate
SpecSamplesFair ==
  InitSamples /\ [][NextSamplesFair]_vars /\ WF_vars(NextSamplesFair)

\* Checkpoint and resume: the leaf is written with PackToProto and the
\* record loaded with ExtractFromProto into a fresh accumulator of the same
\* parameters, last.twin; from then on both are given the same examples
\* (with the same outcome of the bootstrap resampling), and last.twin_call
\* tells whether the resumed one ran its finish check and its prune pass.
ResumeCall ==
  /\ stats.status = "ok"
  /\ last.twin.status = "none"
  /\ last' = [Call("Resume") EXCEPT
                !.slot = PackToProto(params_, stats),
                !.twin = ExtractFromProto(params_, Construct(params_),
                                          PackToProto(params_, stats))]
  /\ UNCHANGED <<params_, stats>>

AddExampleResumedCall ==
  /\ stats.status = "ok"
  /\ last.twin.status = "ok"
  /\ \E ex \in {e \in ClassificationExamples(NestedFeatures(params_)) :
                  e.weight = 1} :
       /\ stats.weight_sum_ + ex.weight <= MaxExamples
       /\ \E nd \in Choices(params_, stats) :
            LET b == ClassificationAccumulate(params_, stats, ex)
                c == CheckFinishEarly(params_, b, nd)
                tb == ClassificationAccumulate(params_, last.twin, ex)
                tc == CheckFinishEarly(params_, tb, nd)
            IN /\ stats' = CheckPrune(params_, c, nd)
               /\ last' = [Call("AddExample") EXCEPT
                             !.weight = ex.weight,
                             !.checked = FinishCheckDue(b, nd)
                               /\ params_.finish_type # "SPLIT_FINISH_BASIC",
                             !.pruned = PruneDue(params_, c, nd),
                             !.twin = CheckPrune(params_, tc, nd),
                             !.twin_call =
                               [checked |-> FinishCheckDue(tb, nd)
                                  /\ params_.finish_type # "SPLIT_FINISH_BASIC",
                                pruned |-> PruneDue(params_, tc, nd)]]
  /\ UNCHANGED params_

NextResume ==
  \/ ProposeSplitCall
  \/ AddExampleUnitCall
  \/ ResumeCall
  \/ AddExampleResumedCall
SpecResume == InitWith(ResumeParams) /\ [][NextResume]_vars

\* Leaves under the pruning strategies: the candidates are proposed, then
\* the examples arrive.
NextPrune == ProposeSplitCall \/ AddExampleNestedCall
SpecPrune == InitWith(PruneParams) /\ [][NextPrune]_vars
SpecPruneHoeffding == InitWith(HoeffdingPruneParams) /\ [][NextPrune]_vars
\* Leaves under every pruning strategy, fraction and Hoeffding.
SpecPruneAll ==
  InitWith(PruneParams \cup HoeffdingPruneParams) /\ [][NextPrune]_vars

(***************************************************************************)
(* Properties.                                                             *)
(***************************************************************************)
Indices == 0 .. (num_splits(stats) - 1)

\* C1: in every reachable state the candidate-split sequence, the evaluator
\* sequence and the per-candidate statistics sequence (and the two score
\* caches when they are kept) have the same length, and position i of each
\* belongs to the candidate at position i of the split sequence.
C1_Aligned ==
  stats.status = "ok" =>
    /\ Len(stats.evaluators_) = num_splits(stats)
    /\ Len(stats.left_counts_) = num_splits(stats)
    /\ \A i \in Indices :
         /\ stats.evaluators_[i + 1].split = stats.splits_[i + 1]
         /\ stats.left_counts_[i + 1].of = stats.splits_[i + 1]
    /\ (IsClassification(params_) /\ HasRunningStats(params_)) =>
         /\ Len(stats.left_gini_) = num_splits(stats)
         /\ Len(stats.right_gini_) = num_splits(stats)
         /\ \A i \in Indices :
              /\ stats.left_gini_[i + 1].of = stats.splits_[i + 1]
              /\ stats.right_gini_[i + 1].of = stats.splits_[i + 1]

\* A RemoveSplit of a candidate that is not the last one has left at least
\* one candidate behind it.
C1_Witness ==
  /\ last.op = "RemoveSplit"
  /\ last.split_num < num_splits(stats)
  /\ stats.weight_sum_ > 0

\* C2: for a classification accumulator every live candidate and every
\* class c satisfy 0 <= left_count[c] <= total[c].
C2_LeftWithinTotal ==
  (stats.status = "ok" /\ IsClassification(params_)) =>
    \A i \in Indices : \A c \in Classes :
      /\ 0 <= left_count(stats, i, c)
      /\ left_count(stats, i, c) <= total_count(stats, c)

\* After an AddExample, one candidate holds part of a class on its left and
\* part of it on its right, and another candidate holds none of it.
C2_Witness ==
  /\ last.op = "AddExample"
  /\ IsClassification(params_)
  /\ \E i \in Indices : \E c \in Classes :
       /\ 0 < left_count(stats, i, c)
       /\ left_count(stats, i, c) < total_count(stats, c)
  /\ \E i \in Indices : \E c \in Classes :
       left_count(stats, i, c) = 0 /\ total_count(stats, c) > 0

\* The accumulator ExtractFromProto builds from the record last written.
Restored == ExtractFromProto(params_, Construct(params_), last.slot)

\* C3: the record PackToProto writes, loaded by ExtractFromProto into a
\* fresh accumulator of the same parameters, gives the same total weight,
\* the same leaf totals, the same candidate splits in the same order and
\* the same per-candidate left statistics.
C3_RoundTrip ==
  last.op = "PackToProto" =>
    /\ Restored.weight_sum_ = stats.weight_sum_
    /\ Restored.splits_ = stats.splits_
    /\ Restored.left_counts_ = stats.left_counts_
    /\ IF IsClassification(params_)
       THEN \A c \in Classes : total_count(Restored, c) = total_count(stats, c)
       ELSE /\ Restored.total_sum_ = stats.total_sum_
            /\ Restored.total_sum_squares_ = stats.total_sum_squares_

\* A record was written for a leaf with examples and at least two
\* candidates whose left statistics differ.
C3_Witness ==
  /\ last.op = "PackToProto"
  /\ stats.weight_sum_ > 0
  /\ \E i, j \in Indices :
       /\ i < j
       /\ stats.left_counts_[i + 1] # [stats.left_counts_[j + 1] EXCEPT
                                         !.of = stats.splits_[i + 1]]

\* Weight on the two sides of candidate i, from the label counts (or, for
\* regression, the example counts).
LeftWeightOf(i) ==
  IF IsClassification(params_)
  THEN SumOver([c \in Classes |-> left_count(stats, i, c)], Classes)
  ELSE left_weight(stats, i)
RightWeightOf(i) ==
  IF IsClassification(params_)
  THEN SumOver([c \in Classes |-> right_count(stats, i, c)], Classes)
  ELSE stats.weight_sum_ - left_weight(stats, i)
BothSides == {i \in Indices : LeftWeightOf(i) > 0 /\ RightWeightOf(i) > 0}
ScoreOf(i) ==
  IF IsClassification(params_) THEN MaybeCachedGiniScore(params_, stats, i).score
  ELSE SplitVariance(stats, i)

\* C4: BestSplit fails exactly when no live candidate has strictly positive
\* weight on both sides; otherwise the returned candidate has strictly
\* positive weight on both sides and a score no higher than that of any
\* other such candidate.
C4_BestSplit ==
  last.op = "BestSplit" =>
    /\ last.best.ok <=> BothSides # {}
    /\ last.best.ok =>
         /\ last.best.best_index \in BothSides
         /\ \A i \in BothSides :
              ~RLt(ScoreOf(i), ScoreOf(last.best.best_index))

\* The classes with weight in the leaf totals.
ObservedClasses == {c \in Classes : total_count(stats, c) # 0}

\* C5: IsFinished() of a classification accumulator is true exactly when
\* (total weight >= split_after_samples and more than one class has been
\* observed) or the early-finish flag is set; IsFinished() of a regression
\* accumulator is true exactly when total weight >= split_after_samples.
C5_IsFinished ==
  stats.status = "ok" =>
    (IsFinished(params_, stats) <=>
       IF IsClassification(params_)
       THEN \/ /\ stats.weight_sum_ >= params_.split_after_samples
               /\ Cardinality(ObservedClasses) > 1
            \/ stats.finish_early_
       ELSE stats.weight_sum_ >= params_.split_after_samples)

\* A classification leaf at the sample threshold that has seen one class
\* only, and is not finished.
C5_Witness ==
  /\ IsClassification(params_)
  /\ stats.weight_sum_ >= params_.split_after_samples
  /\ Cardinality(ObservedClasses) = 1
  /\ ~stats.finish_early_
  /\ ~IsFinished(params_, stats)

\* C6: with the running-statistics cache enabled, when BestSplit reads the
\* scores the cached left sum, right sum and score of every live candidate
\* equal the values GiniScore recomputes from the label counts.
C6_CacheAgrees ==
  (last.op = "BestSplit" /\ IsClassification(params_)
     /\ HasRunningStats(params_)) =>
    \A i \in Indices :
      LET cached == MaybeCachedGiniScore(params_, stats, i)
          fresh == GiniScore(params_, stats, i)
      IN /\ cached.left_sum = fresh.left_sum
         /\ cached.right_sum = fresh.right_sum
         /\ REq(cached.score, fresh.score)

\* What RemoveSplit(k) must leave of the accumulator a.
Shifted(a, b, k) ==
  /\ num_splits(b) = num_splits(a) - 1
  /\ Len(b.evaluators_) = Len(a.evaluators_) - 1
  /\ Len(b.left_counts_) = Len(a.left_counts_) - 1
  /\ \A j \in 1 .. num_splits(b) :
       LET from == IF j <= k THEN j ELSE j + 1
       IN /\ b.splits_[j] = a.splits_[from]
          /\ b.evaluators_[j] = a.evaluators_[from]
          /\ b.left_counts_[j] = a.left_counts_[from]

\* C7: a RemoveSplit(k) call with 0 <= k < num_splits() leaves every
\* candidate formerly at an index j > k at index j - 1 with its own
\* evaluator and statistics record, every candidate formerly at an index
\* j < k unchanged at index j, and one candidate fewer.
C7_RemoveShifts ==
  [][last'.op = "RemoveSplit" =>
       /\ last'.split_num \in 0 .. (num_splits(stats) - 1)
       /\ Shifted(stats, stats', last'.split_num)]_vars

\* A RemoveSplit(k) with candidates both before and after index k, on a
\* leaf that has seen examples.
C7_Witness ==
  /\ last.op = "RemoveSplit"
  /\ 0 < last.split_num
  /\ last.split_num < num_splits(stats)
  /\ stats.weight_sum_ > 0

\* Which parameters the selected strategies use.
UsesDominateFraction(p) ==
  \/ p.finish_type # "SPLIT_FINISH_BASIC"
  \/ p.pruning_type = "SPLIT_PRUNE_HOEFFDING"
UsesMinSplitSamples(p) == p.finish_type # "SPLIT_FINISH_BASIC"

\* C8: construction is fatal whenever a selected strategy uses the dominate
\* fraction or the minimum-sample threshold and the parameter is absent,
\* and whenever a dominate fraction that is used lies outside (0,1].
C8_ConstructionFatal ==
  ( \/ UsesDominateFraction(params_) /\ ~params_.has_dominate_fraction
    \/ UsesMinSplitSamples(params_) /\ ~params_.has_min_split_samples
    \/ /\ UsesDominateFraction(params_)
       /\ params_.has_dominate_fraction
       /\ params_.dominate_fraction \in {"neg", "zero", "above"} )
  => stats.status = "fatal"

\* The positions of last.entered whose candidate the pass removed / kept.
Removed == {i \in DOMAIN last.entered :
              last.entered[i].of \notin Range(stats.splits_)}
Kept == DOMAIN last.entered \ Removed

FractionPass ==
  /\ last.op = "AddExample"
  /\ last.pruned
  /\ params_.pruning_type \in {"SPLIT_PRUNE_HALF", "SPLIT_PRUNE_QUARTER",
                               "SPLIT_PRUNE_10_PERCENT"}

\* floor(fraction * n) for the fraction of the pruning type.
FloorOfFraction(n) ==
  CASE params_.pruning_type = "SPLIT_PRUNE_HALF" -> n \div 2
    [] params_.pruning_type = "SPLIT_PRUNE_QUARTER" -> n \div 4
    [] OTHER -> n \div 10

\* C9 (as amended): a fraction prune pass over n live candidates removes
\* floor(fraction * n) candidates, and no removed candidate scored lower
\* than a candidate that was kept: the highest-scoring ones are removed.
C9_RemovesHighest ==
  FractionPass =>
    /\ Cardinality(Removed) = FloorOfFraction(Len(last.entered))
    /\ \A r \in Removed : \A k \in Kept :
         ~RLt(last.entered[r].score, last.entered[k].score)

\* C9 as stated: the removed candidates are the lowest-scoring ones, no
\* removed candidate scored higher than a candidate that was kept.
C9_RemovesLowest ==
  FractionPass =>
    /\ Cardinality(Removed) = FloorOfFraction(Len(last.entered))
    /\ \A r \in Removed : \A k \in Kept :
         ~RLt(last.entered[k].score, last.entered[r].score)

\* A fraction pass removed a candidate that scored strictly higher than one
\* it kept.
C9_Witness ==
  /\ FractionPass
  /\ \E r \in Removed : \E k \in Kept :
       RLt(last.entered[k].score, last.entered[r].score)

HoeffdingPass ==
  /\ last.op = "AddExample"
  /\ last.pruned
  /\ params_.pruning_type = "SPLIT_PRUNE_HOEFFDING"

\* The square of epsilon = S (1 - 1/n) sqrt(halfLnDominateFrac / S).
EpsilonSquared ==
  RMul(<<stats.weight_sum_ * (NumOutputs - 1) * (NumOutputs - 1),
         NumOutputs * NumOutputs>>,
       RMul(<<1, 2>>, LnInvOneMinus(ResolveDominateFraction(params_))))

\* Whether the candidate at position i of last.entered scored more than
\* best + epsilon, best being the minimum score of the pass.
ExceedsBest(i) ==
  LET best == CHOOSE b \in {last.entered[j].score : j \in DOMAIN last.entered} :
                \A j \in DOMAIN last.entered : ~RLt(last.entered[j].score, b)
  IN ExceedsRoot(RSub(last.entered[i].score, best), EpsilonSquared)

\* C10: a Hoeffding prune pass removes exactly the candidates whose score
\* exceeds best + epsilon and leaves the others in their original relative
\* order, each with its own statistics.
C10_HoeffdingPrune ==
  HoeffdingPass =>
    LET Stays(e) == \E i \in DOMAIN last.entered :
                      last.entered[i] = e /\ ~ExceedsBest(i)
        kept == SelectSeq(last.entered, Stays)
    IN /\ stats.splits_ = [i \in DOMAIN kept |-> kept[i].of]
       /\ stats.left_counts_ = [i \in DOMAIN kept |-> kept[i].stats]

\* A Hoeffding pass removed a candidate and kept one that was behind it.
C10_Witness ==
  /\ HoeffdingPass
  /\ \E r \in Removed : \E k \in Kept : r < k

(***************************************************************************)
(* The schedule of the early-finish check.                                 *)
(***************************************************************************)
\* The call just made was an AddExample that evaluated a finish strategy.
Evaluated == last.op = "AddExample" /\ last.checked

\* C11: an early-finish strategy is evaluated by AddExample only if the
\* total weight is at least the minimum split samples and has reached the
\* next check epoch; on a leaf fed weight-1 examples from empty, two
\* evaluations are never less than check_every_steps examples apart (for
\* check_every_steps = 2: never on consecutive examples); and under the
\* BASIC finish type no strategy is evaluated and the flag stays false.
C11_FinishSchedule ==
  [][/\ Evaluated' =>
          /\ stats'.weight_sum_ >= params_.min_split_samples
          /\ stats'.weight_sum_ >=
                (stats'.finish_sample_epoch_ - 1) * params_.check_every_steps
     /\ (Evaluated /\ Evaluated') => params_.check_every_steps <= 1
     /\ params_.finish_type = "SPLIT_FINISH_BASIC" =>
          ~last'.checked /\ ~stats'.finish_early_]_vars

\* The parts of C11 other than the spacing of the evaluations.
C11_Guarded ==
  [][/\ Evaluated' =>
          /\ stats'.weight_sum_ >= params_.min_split_samples
          /\ stats'.weight_sum_ >=
                (stats'.finish_sample_epoch_ - 1) * params_.check_every_steps
     /\ params_.finish_type = "SPLIT_FINISH_BASIC" =>
          ~last'.checked /\ ~stats'.finish_early_]_vars

(***************************************************************************)
(* The schedule of the prune pass.                                         *)
(***************************************************************************)
\* The call just made was an AddExample that ran a prune pass.
PrunePass == last.op = "AddExample" /\ last.pruned

\* C12: AddExample runs a prune pass only when IsFinished() is false after
\* its early-finish check, and on a leaf fed weight-1 examples two prune
\* passes are never less than prune_every_samples examples apart (for
\* prune_every_samples = 2: never on consecutive examples), also when the
\* leaf was finished for a while in between.
C12_PruneSchedule ==
  [][/\ PrunePass' => ~IsFinished(params_, stats')
     /\ (PrunePass /\ PrunePass') => params_.prune_every_samples <= 1]_vars

\* The part of C12 other than the spacing of the passes, with the epoch
\* test of CheckPrune.
C12_Guarded ==
  [][PrunePass' =>
       /\ ~IsFinished(params_, stats')
       /\ stats'.weight_sum_ >=
             (stats'.prune_sample_epoch_ - 1) * params_.prune_every_samples]_vars

\* C12 for leaves that were never finished.
C12_NeverFinished ==
  [][(PrunePass /\ PrunePass') =>
        \/ params_.prune_every_samples <= 1
        \/ params_.finish_type # "SPLIT_FINISH_BASIC"]_vars

(***************************************************************************)
(* Accumulated weight and epoch counters.                                  *)
(***************************************************************************)
\* C13: an AddExample call increases weight_sum_ by exactly the example's
\* weight (classification) or by exactly 1 (regression), whatever the
\* candidates and the routing; weight_sum_ does not decrease, and neither
\* do the finish and prune epoch counters the constructor assigned.
C13_WeightAndEpochs ==
  [][last'.op = "AddExample" =>
       /\ stats'.weight_sum_ =
            stats.weight_sum_ +
              (IF IsClassification(params_) THEN last'.weight ELSE 1)
       /\ stats'.weight_sum_ >= stats.weight_sum_
       /\ "finish_sample_epoch_" \notin stats.unassigned =>
            stats'.finish_sample_epoch_ >= stats.finish_sample_epoch_
       /\ "prune_sample_epoch_" \notin stats.unassigned =>
            stats'.prune_sample_epoch_ >= stats.prune_sample_epoch_]_vars

\* A weight-0 example was added to a classification leaf that has
\* candidates and whose finish and prune epochs have both advanced.
C13_Witness ==
  /\ IsClassification(params_)
  /\ last.op = "AddExample" /\ last.weight = 0
  /\ num_splits(stats) >= 1
  /\ stats.weight_sum_ >= 1
  /\ "finish_sample_epoch_" \notin stats.unassigned
  /\ stats.finish_sample_epoch_ > 1 /\ stats.prune_sample_epoch_ > 1

(***************************************************************************)
(* The Hoeffding early finish.                                             *)
(***************************************************************************)
\* The last call evaluated the Hoeffding finish strategy, and its prune
\* pass, if any, removed nothing: the scores are those the strategy saw.
HoeffdingFinishEvaluated ==
  /\ last.op = "AddExample" /\ last.checked /\ last.removed = 0
  /\ params_.finish_type = "SPLIT_FINISH_DOMINATE_HOEFFDING"

LiveScores == SplitScores(params_, stats)

\* Position of a lowest score, and of a lowest score among the others.
LowestAt ==
  CHOOSE i \in DOMAIN LiveScores :
    \A j \in DOMAIN LiveScores : ~RLt(LiveScores[j], LiveScores[i])
SecondLowestAt ==
  CHOOSE i \in DOMAIN LiveScores \ {LowestAt} :
    \A j \in DOMAIN LiveScores \ {LowestAt} :
      ~RLt(LiveScores[j], LiveScores[i])

\* bound^2 for bound = range * sqrt(ln(1/(1-d)) / (2 S)), range = 0.25 n S.
FinishBoundSquared ==
  RMul(<<NumOutputs * NumOutputs * stats.weight_sum_, 32>>,
       LnInvOneMinus(stats.dominate_fraction_))

\* (second-best score - best score) > bound, for two or more candidates.
GapExceedsBound ==
  LET gap == RSub(LiveScores[SecondLowestAt], LiveScores[LowestAt])
  IN /\ ~IsInf(FinishBoundSquared) /\ ~IsNaN(FinishBoundSquared)
     /\ RLt(RZero, gap)
     /\ RLt(FinishBoundSquared, RMul(gap, gap))

\* C14: when the Hoeffding finish strategy is evaluated, the leaf is
\* declared finished early exactly when the gap between the two lowest
\* scores of the live candidates exceeds the bound; a leaf with fewer than
\* two live candidates is not declared finished early.
C14_HoeffdingFinish ==
  HoeffdingFinishEvaluated =>
    (stats.finish_early_ <=> (num_splits(stats) >= 2 /\ GapExceedsBound))

\* C14 for leaves with two or more live candidates.
C14_TwoOrMore ==
  (HoeffdingFinishEvaluated /\ num_splits(stats) >= 2) =>
    (stats.finish_early_ <=> GapExceedsBound)

\* C14 for leaves with no live candidate.
C14_NoCandidate ==
  (HoeffdingFinishEvaluated /\ num_splits(stats) = 0) => ~stats.finish_early_

(***************************************************************************)
(* ExtractFromProto on a used accumulator.                                 *)
(***************************************************************************)
\* The value the record holds at position c of a statistics vector.
RecordValue(block, c) ==
  IF params_.variant = "sparse"
  THEN (IF c \in DOMAIN block THEN block[c] ELSE 0)
  ELSE block[c + 1]

\* The accumulator's candidate at index i holds the record's left
\* statistics for it.
LoadedLeftStats(i) ==
  LET ls == last.slot.candidates[i + 1].left_stats
  IN IF IsClassification(params_)
     THEN \A c \in Classes : left_count(stats, i, c) = RecordValue(ls.counts, c)
     ELSE /\ left_weight(stats, i) = ls.weight_sum
          /\ \A c \in Classes :
               /\ left_sum(stats, i, c) = RecordValue(ls.counts, c)
               /\ left_square(stats, i, c) = RecordValue(ls.squares, c)

C16_SparseAsDense ==
  LET twin == last.twin
      dense == BestSplit(params_, stats)
      sparse == BestSplit(SparseParams, twin)
  IN /\ twin.splits_ = stats.splits_
     /\ \A i \in Indices :
          /\ GiniScore(SparseParams, twin, i) = GiniScore(params_, stats, i)
          /\ MaybeCachedGiniScore(SparseParams, twin, i) =
               MaybeCachedGiniScore(params_, stats, i)
     /\ IsFinished(SparseParams, twin) = IsFinished(params_, stats)
     /\ sparse.ok = dense.ok
     /\ sparse.best_index = dense.best_index

\* Both accumulators hold two candidates whose scores differ, are finished,
\* and BestSplit succeeds, after a weight-0 example.
C16_Witness ==
  /\ last.op = "AddExample" /\ last.weight = 0
  /\ num_splits(stats) = 2
  /\ GiniScore(params_, stats, 0).score # GiniScore(params_, stats, 1).score
  /\ IsFinished(params_, stats)
  /\ BestSplit(params_, stats).ok

(***************************************************************************)
(* NumBootstrapSamples.                                                    *)
(***************************************************************************)
Returned == last.op = "NumBootstrapSamples" /\ last.loop.pc = "return"

\* 2^k
RECURSIVE Pow2(_)
Pow2(k) == IF k = 0 THEN 1 ELSE 2 * Pow2(k - 1)

\* (1 - d) < 2^(-s)
BelowHalving(d, s) == RLt(RSub(<<1, 1>>, d), <<1, Pow2(s)>>)

\* C17 as stated: NumBootstrapSamples() returns the smallest integer
\* s >= 1 with (1 - dominate_fraction) < 2^(-s), for every dominate
\* fraction accepted at construction.
C17_SmallestBelow ==
  Returned =>
    /\ BelowHalving(last.loop.d, last.loop.bootstrap_samples)
    /\ \A s \in 1 .. (last.loop.bootstrap_samples - 1) :
         ~BelowHalving(last.loop.d, s)

\* C17, amended: for a dominate fraction below 1, NumBootstrapSamples()
\* returns the smallest integer s >= 1 with 2^(-(s-1)) <= 1 - d, that is
\* with (1 - d) * 2^(s-1) >= 1; then 2^(-s) < 1 - d.
C17_SmallestCovering ==
  Returned =>
    LET s == last.loop.bootstrap_samples
        p == RSub(<<1, 1>>, last.loop.d)
    IN /\ s >= 1
       /\ ~RLt(RMul(p, <<Pow2(s - 1), 1>>), <<1, 1>>)
       /\ \A t \in 1 .. (s - 1) : RLt(RMul(p, <<Pow2(t - 1), 1>>), <<1, 1>>)
       /\ RLt(<<1, Pow2(s)>>, p)

\* NumBootstrapSamples() returned after at least two doublings.
C17_Witness ==
  Returned /\ last.loop.bootstrap_samples >= 3

(***************************************************************************)
(* What a fraction prune pass removes and what it leaves.                  *)
(***************************************************************************)
\* The positions (1-based) of the candidates the selection loop picks from
\* the scores the pass was entered with; the loop is not entered when
\* there is nothing to remove.
Selected ==
  IF FloorOfFraction(Len(last.entered)) = 0 THEN {}
  ELSE {i + 1 : i \in PruneSelect([k \in DOMAIN last.entered |->
                                     last.entered[k].score],
                                  FloorOfFraction(Len(last.entered)), 0, {})}

\* The entry position of the j-th surviving candidate.
KeptAt(j) ==
  CHOOSE i \in Kept : Cardinality({k \in Kept : k < i}) = j - 1

\* C18: a fraction prune pass over n live candidates removes exactly
\* floor(fraction * n) distinct candidates, the ones selected before the
\* first removal and no other; the survivors keep their relative order and
\* their own statistics; when floor(fraction * n) is 0 nothing is removed.
C18_RemovesSelected ==
  FractionPass =>
    LET n == Len(last.entered)
    IN /\ last.removed = FloorOfFraction(n)
       /\ Cardinality(Removed) = FloorOfFraction(n)
       /\ Removed = Selected
       /\ num_splits(stats) = Cardinality(Kept)
       /\ Len(stats.left_counts_) = Cardinality(Kept)
       /\ \A j \in 1 .. Cardinality(Kept) :
            /\ stats.splits_[j] = last.entered[KeptAt(j)].of
            /\ stats.left_counts_[j] = last.entered[KeptAt(j)].stats
       /\ FloorOfFraction(n) = 0 =>
            stats.splits_ = [i \in 1 .. n |-> last.entered[i].of]

\* A pass removed two candidates, one of them ahead of a survivor, and two
\* survivors hold different counts.
C18_Witness ==
  /\ FractionPass
  /\ Cardinality(Removed) >= 2
  /\ \E r \in Removed : \E k \in Kept : r < k
  /\ \E j, k \in Kept :
       last.entered[j].stats.counts # last.entered[k].stats.counts

(***************************************************************************)
(* The statistics BestSplit writes.                                        *)
(***************************************************************************)
\* The count of class c in a block of the output: value(c) of a dense
\* block, the entry of a sparse block, 0 for an absent sparse key.
OutputCount(block, c) ==
  IF params_.variant = "sparse"
  THEN (IF c \in DOMAIN block THEN block[c] ELSE 0)
  ELSE block[c + 1]

\* The output of a successful classification BestSplit: left and right
\* counts add up to the leaf totals, the left counts are the winner's, and
\* a sparse right block holds only strictly positive counts.
BestSplitOutput ==
  (last.op = "BestSplit" /\ last.best.ok /\ IsClassification(params_)) =>
    LET left == last.best.stats.left.counts
        right == last.best.stats.right.counts
    IN /\ \A c \in Classes :
            /\ OutputCount(left, c) + OutputCount(right, c)
                 = total_count(stats, c)
            /\ OutputCount(left, c) = left_count(stats, last.best.best_index, c)
       /\ last.best.split = stats.splits_[last.best.best_index + 1]
       /\ params_.variant = "sparse" =>
            \A c \in DOMAIN right :
              /\ right[c] > 0
              /\ right[c] = right_count(stats, last.best.best_index, c)

\* C19: on a successful classification BestSplit, left[c] + right[c] is
\* the leaf total of every class c (an absent sparse key counting 0), the
\* left counts are those of the winning candidate, a sparse right block
\* holds only keys whose right residual is strictly positive, and the call
\* changes nothing in the accumulator.
C19_BestSplitOutput ==
  [][last'.op = "BestSplit" => (stats' = stats /\ BestSplitOutput')]_vars

\* A sparse BestSplit succeeded with a winner that sent all examples of
\* some class left, so that the class has no key in the right block.
C19_Witness ==
  /\ last.op = "BestSplit" /\ last.best.ok
  /\ params_.variant = "sparse"
  /\ \E c \in DOMAIN stats.total_counts_ :
       /\ c \notin DOMAIN last.best.stats.right.counts
       /\ c \in DOMAIN last.best.stats.left.counts

(***************************************************************************)
(* Whether a finished leaf stays finished.                                 *)
(***************************************************************************)
\* C20: once IsFinished() is true for a classification accumulator, it is
\* true after every further AddExample call, under any finish type.
C20_StaysFinished ==
  [][(/\ IsClassification(params_)
      /\ IsFinished(params_, stats)
      /\ last'.op = "AddExample") => IsFinished(params_, stats')]_vars

\* C20 for leaves without an early-finish strategy.
C20_StaysFinishedBasic ==
  [][(/\ IsClassification(params_)
      /\ params_.finish_type = "SPLIT_FINISH_BASIC"
      /\ IsFinished(params_, stats)
      /\ last'.op = "AddExample") => IsFinished(params_, stats')]_vars

\* C20 for leaves that have reached split_after_samples with two classes.
C20_StaysFinishedAtThreshold ==
  [][(/\ IsClassification(params_)
      /\ stats.weight_sum_ >= stats.split_after_samples_
      /\ num_outputs_seen(params_, stats) > 1
      /\ last'.op = "AddExample") => IsFinished(params_, stats')]_vars

(***************************************************************************)
(* What every prune pass leaves.                                           *)
(***************************************************************************)
\* The last call ran a fraction or a Hoeffding prune pass over at least
\* one live candidate.
PrunedSome ==
  /\ last.op = "AddExample" /\ last.pruned
  /\ params_.pruning_type # "SPLIT_PRUNE_NONE"
  /\ Len(last.entered) >= 1

\* Whether m is the lowest of the scores (a non-empty sequence).
IsMinimum(m, scores) ==
  /\ \E i \in DOMAIN scores : REq(scores[i], m)
  /\ \A i \in DOMAIN scores : ~RLt(scores[i], m)

\* The entry positions of the candidates with the lowest score of the pass.
MinimumAtEntry ==
  {i \in DOMAIN last.entered :
     \A j \in DOMAIN last.entered :
       ~RLt(last.entered[j].score, last.entered[i].score)}

\* C21: a prune pass (fraction or Hoeffding) entered with at least one
\* live candidate leaves at least one, keeps at least one candidate of the
\* lowest score, and the lowest score over the live candidates is the same
\* after the pass as before it, ties included.
C21_KeepsMinimum ==
  PrunedSome =>
    /\ num_splits(stats) >= 1
    /\ MinimumAtEntry \cap Kept # {}
    /\ \A i \in MinimumAtEntry :
         IsMinimum(last.entered[i].score, SplitScores(params_, stats))

\* A pass removed a candidate of the lowest score, which another candidate
\* of the same score survived.
C21_Witness ==
  /\ PrunedSome
  /\ MinimumAtEntry \cap Removed # {}
  /\ MinimumAtEntry \cap Kept # {}

(***************************************************************************)
(* Checkpoint and resume.                                                  *)
(***************************************************************************)
\* C22: an accumulator loaded from the record of another reports the same
\* IsFinished() as the original and, given the same further examples, runs
\* its finish check and its prune pass at the same examples.
C22_ResumePreserves ==
  /\ last.op = "Resume" =>
       IsFinished(params_, last.twin) = IsFinished(params_, stats)
  /\ (last.op = "AddExample" /\ last.twin.status = "ok") =>
       /\ last.twin_call.checked = last.checked
       /\ last.twin_call.pruned = last.pruned
       /\ IsFinished(params_, last.twin) = IsFinished(params_, stats)

\* What the record does carry: the resumed accumulator has the weight, the
\* candidates, the per-candidate statistics and the leaf totals of the
\* original, at the checkpoint and after every further example that
\* removed no candidate from either.
C22_StatisticsPreserved ==
  (last.twin.status = "ok"
     /\ num_splits(last.twin) = num_splits(stats)) =>
    /\ last.twin.weight_sum_ = stats.weight_sum_
    /\ last.twin.splits_ = stats.splits_
    /\ last.twin.left_counts_ = stats.left_counts_
    /\ \A c \in Classes : total_count(last.twin, c) = total_count(stats, c)

\* C22 for a checkpoint taken before the first example.
C22_FromEmpty ==
  [][(last.op = "Resume" /\ stats.weight_sum_ = 0) => C22_ResumePreserves']_vars

(***************************************************************************)
(* Termination of NumBootstrapSamples.                                     *)
(***************************************************************************)
\* C23: NumBootstrapSamples() terminates for every dominate fraction that
\* construction accepts, every value in (0,1] including exactly 1: a call
\* that was made returns.
C23_Terminates ==
  (last.op = "NumBootstrapSamples") ~> Returned

\* A call made with a dominate fraction below 1 returns.
CalledBelowOne ==
  last.op = "NumBootstrapSamples" /\ RLt(last.loop.d, <<1, 1>>)

C23_TerminatesBelowOne == CalledBelowOne ~> Returned

\* With a dominate fraction of exactly 1 the loop is entered with p = 0 and
\* p stays 0 at every test of the loop condition.
C23_StuckAtOne ==
  (last.loop.pc = "while" /\ last.loop.d = <<FractionDen, FractionDen>>) =>
    /\ stats.status = "ok"
    /\ last.loop.p[1] = 0
    /\ NumBootstrapSamplesStep(last.loop).pc = "while"
    /\ NumBootstrapSamplesStep(last.loop).p[1] = 0

====
